---------------------------- MODULE Spec2Model ----------------------------
(***************************************************************************)
(* Model of the OMR evaluation system (app/omr_processor.py, app/main.py). *)
(*                                                                         *)
(* OMRProcessor.process_omr_sheet turns the bytes of a photographed bubble *)
(* sheet and an answer key into a score report or an error result.  The    *)
(* OpenCV front end (imdecode, cvtColor, adaptiveThreshold, findContours)  *)
(* is library code: an image is modelled by what that front end hands to   *)
(* the repository's code, i.e. whether the bytes decode and, if so, the    *)
(* list of external contours in detection order, each with its bounding    *)
(* rectangle (x, y, w, h), its contourArea and the number of ink pixels of *)
(* the thresholded image that lie inside the filled contour.               *)
(***************************************************************************)
EXTENDS Integers, Sequences, FiniteSets, TLC

VARIABLES
    image_bytes,   \* the input image of the call (abstracted, see above)
    answer_key,    \* the answer key dict handed to the call
    result,        \* the dict returned by process_omr_sheet (NoResult before)
    run,           \* what the call computed on its way: candidates, grid, marks
    pc,            \* "ready" before the call, "done" after it
    processor,     \* the OMRProcessor instance that main.py caches and shares
    frames,        \* the activations of process_omr_sheet, one per worker
    returned,      \* the calls that have returned: their arguments and results
    batch,         \* a batch run: its files, the loop position, what it did
    db,            \* the Database: its tables and the last value it returned
    session        \* the browser session of main.py: session state and widgets

\* the single call of process_omr_sheet
callVars == <<image_bytes, answer_key, result, run, pc>>
\* calls on the shared processor
workerVars == <<processor, frames, returned>>

vars == <<image_bytes, answer_key, result, run, pc, processor, frames,
          returned, batch, db, session>>

(***************************************************************************)
(* Python values.                                                          *)
(***************************************************************************)
\* None of `bubbled = None` and of dict.get: the empty tuple; a value v that
\* is present is the 1-tuple <<v>>.
None == <<>>

Min(S) == CHOOSE m \in S : \A n \in S : m <= n
Max(S) == CHOOSE m \in S : \A n \in S : m >= n

RECURSIVE Digits(_)
\* The decimal digits of a natural number, most significant first.
Digits(n) == IF n < 10 THEN <<n>> ELSE Append(Digits(n \div 10), n % 10)

\* str(n): the string of the decimal digits of n.  A dict key is a record of
\* its Python type and its text, so that the string "7" and the integer 7 are
\* different keys, as they are in a Python dict.
PyStr(n) == [t |-> "str", d |-> Digits(n)]

\* dict.get(k): the value under k, or None.
DictGet(d, k) == IF k \in DOMAIN d THEN <<d[k]>> ELSE None

\* a slice that takes its end index too
Slice_EndInclusive(s, a, b) ==
    LET hi == IF b + 1 < Len(s) THEN b + 1 ELSE Len(s)
    IN  IF a >= hi THEN <<>> ELSE SubSeq(s, a + 1, hi)

\* a dict after its entries under the keys ks were popped
DictAfterPop(d, ks) == [k \in DOMAIN d \ ks |-> d[k]]

\* a dict after dict.get was called with the keys ks: get leaves it as it is
DictAfterGet(d, ks) == d

\* seq[a:b] of Python (0-based, end exclusive, truncated to the sequence).
Slice(s, a, b) ==
    LET hi == IF b < Len(s) THEN b ELSE Len(s)
    IN  IF a >= hi THEN <<>> ELSE SubSeq(s, a + 1, hi)

(***************************************************************************)
(* The layout that process_omr_sheet hard-codes.                           *)
(***************************************************************************)
total_questions == 100
options_per_question == 4
\* the minimum number of bubble candidates (line 37)
MinCandidates == 400
\* bubbles of one physical row: 5 questions * 4 options (lines 48 and 52)
RowSize == 20
\* rows of questions that are processed (line 49)
MaxRows == 20
\* question blocks in a row (line 55) and the numbering stride (line 56)
ColumnBlocks == 5
RowsPerBlock == 20

(***************************************************************************)
(* Shape filter, lines 27-35.                                              *)
(***************************************************************************)
\* w >= 10 and h >= 10 and 0.5 <= w / float(h) <= 1.5, then contourArea > 50.
\* The ratio tests are exact in integers: 0.5 and 1.5 are floats and float
\* division is correctly rounded, so w/h >= 0.5 iff 2w >= h, w/h <= 1.5 iff
\* 2w <= 3h.
\* lines 32-34 without the area test
IsBubbleShape_AnyArea(c) ==
    /\ c.w >= 10 /\ c.h >= 10
    /\ 2 * c.w >= c.h /\ 2 * c.w <= 3 * c.h

IsBubbleShape(c) ==
    /\ c.w >= 10 /\ c.h >= 10
    /\ 2 * c.w >= c.h /\ 2 * c.w <= 3 * c.h
    /\ c.area > 50

FilterContours(contours) == SelectSeq(contours, IsBubbleShape)

(***************************************************************************)
(* imutils.contours.sort_contours(cnts, method="left-to-right"): a stable  *)
(* sort of the contours by the x of their bounding rectangles              *)
(* ("left-to-right", "right-to-left") or by the y ("top-to-bottom",        *)
(* "bottom-to-top"), with reverse=True for "right-to-left" and             *)
(* "bottom-to-top".  sorted(..., reverse=True) keeps contours of equal     *)
(* coordinate in their original order.  The function unpacks the zip of   *)
(* the sorted pairs into two names, which raises ValueError for an empty   *)
(* list.                                                                   *)
(***************************************************************************)
\* the sort keys with the two axes exchanged
Coord_Exchanged(c, method) ==
    IF method \in {"top-to-bottom", "bottom-to-top"} THEN c.x ELSE c.y

\* i = 1 (the y of the bounding rectangle) for the two vertical methods,
\* i = 0 (its x) otherwise
Coord(c, method) ==
    IF method \in {"top-to-bottom", "bottom-to-top"} THEN c.y ELSE c.x

\* reverse = True
Reversed(method) == method \in {"right-to-left", "bottom-to-top"}

RECURSIVE SortedByKeys(_, _, _, _)
\* the contours, all with coordinates in lo..hi, in the order of their
\* coordinates (greatest first when reversed), those of equal coordinate in
\* the order they have in cnts
SortedByKeys(cnts, method, lo, hi) ==
    IF cnts = <<>> \/ lo >= hi THEN cnts
    ELSE LET mid == (lo + hi) \div 2
             low == SortedByKeys(SelectSeq(cnts, LAMBDA c : Coord(c, method) <= mid),
                                 method, lo, mid)
             high == SortedByKeys(SelectSeq(cnts, LAMBDA c : Coord(c, method) > mid),
                                  method, mid + 1, hi)
         IN  IF Reversed(method) THEN high \o low ELSE low \o high

\* the exception a call raises, in place of the value it would return
Raised(exc) == [raised |-> exc]

\* element [0] of the pair that sort_contours returns
SortContours(cnts, method) ==
    LET keys == {Coord(cnts[i], method) : i \in 1..Len(cnts)}
    IN  IF cnts = <<>> THEN Raised("ValueError")
        ELSE SortedByKeys(cnts, method, Min(keys), Max(keys))

(***************************************************************************)
(* The scoring loops, lines 43-72.                                         *)
(***************************************************************************)
\* the numbering of line 56 with the stride of the blocks mistaken for their
\* number
QuestionNum_BlockStride(col, q_row) == (col * ColumnBlocks) + q_row + 1

\* line 56
QuestionNum(col, q_row) == (col * RowsPerBlock) + q_row + 1

RECURSIVE BubbledLoop(_, _, _)
\* lines 60-68: the (total, j) of the first bubble with the greatest ink count
\* among cnts, None when cnts is empty.  j is the 0-based option index.
BubbledLoop(cnts, j, bubbled) ==
    IF j >= Len(cnts) THEN bubbled
    ELSE LET total == cnts[j + 1].ink
         IN  BubbledLoop(cnts, j + 1,
                 IF bubbled = None \/ total > bubbled[1]
                 THEN <<total, j>> ELSE bubbled)

RECURSIVE BubbledLoop_LastWins(_, _, _)
\* lines 60-68 with >= for >: the last bubble with the greatest ink count
BubbledLoop_LastWins(cnts, j, bubbled) ==
    IF j >= Len(cnts) THEN bubbled
    ELSE LET total == cnts[j + 1].ink
         IN  BubbledLoop_LastWins(cnts, j + 1,
                 IF bubbled = None \/ total >= bubbled[1]
                 THEN <<total, j>> ELSE bubbled)

Bubbled_LastWins(cnts) == BubbledLoop_LastWins(cnts, 0, None)

Bubbled(cnts) == BubbledLoop(cnts, 0, None)

\* lines 70-72 with the ink total of `bubbled` compared in place of its index
IsCorrect_TotalForIndex(key, question_num, bubbled) ==
    LET correct_answer_idx == DictGet(key, PyStr(question_num))
    IN  correct_answer_idx # None /\ bubbled[1] = correct_answer_idx[1]

\* lines 70-72: whether the question adds one to `correct`, for a bubbled
\* that is not None.
IsCorrect(key, question_num, bubbled) ==
    LET correct_answer_idx == DictGet(key, PyStr(question_num))
    IN  correct_answer_idx # None /\ bubbled[2] = correct_answer_idx[1]

\* line 71 raises TypeError: the key holds the question, so that the `and`
\* goes on to bubbled[1], and bubbled is None (the question had no bubble)
IndexesNone(key, question_num, bubbled) ==
    DictGet(key, PyStr(question_num)) # None /\ bubbled = None

\* One question of a row, lines 56-72, as a record of what was computed.
\* `raises`: line 71 raises, which line 76 catches.
QuestionCell(row_contours, q_row, col, key) ==
    LET cnts == Slice(row_contours, col * options_per_question,
                      (col + 1) * options_per_question)
        bubbled == Bubbled(cnts)
        num == QuestionNum(col, q_row)
    IN  [question_num |-> num, q_row |-> q_row, col |-> col,
         cnts |-> [j \in 1..Len(cnts) |-> cnts[j].id],
         inks |-> [j \in 1..Len(cnts) |-> cnts[j].ink],
         bubbled |-> bubbled,
         raises |-> IndexesNone(key, num, bubbled),
         counted |-> (bubbled # None /\ IsCorrect(key, num, bubbled))]

\* lines 51-72 without the sort of line 52
RowCells_Unsorted(question_cnts, q_row, key) ==
    LET i == q_row * RowSize
        row_contours == Slice(question_cnts, i, i + RowSize)
    IN  [b \in 1..ColumnBlocks |->
            QuestionCell(row_contours, q_row, b - 1, key)]

\* One physical row, lines 51-72: the five questions, left to right.
RowCells(question_cnts, q_row, key) ==
    LET i == q_row * RowSize
        row_contours == SortContours(Slice(question_cnts, i, i + RowSize),
                                     "left-to-right")
    IN  [b \in 1..ColumnBlocks |->
            QuestionCell(row_contours, q_row, b - 1, key)]

\* line 48: the number of iterations of np.arange(0, n, 20), cut by the break
\* of line 49.
NumRows(n) ==
    LET steps == (n + RowSize - 1) \div RowSize
    IN  IF steps > MaxRows THEN MaxRows ELSE steps

\* the rows of cells, one after the other
Flatten(rows) ==
    [i \in 1..(Len(rows) * ColumnBlocks) |->
        rows[((i - 1) \div ColumnBlocks) + 1][((i - 1) % ColumnBlocks) + 1]]

\* All questions in the order the loops visit them.
GridCells(question_cnts, key) ==
    Flatten([r \in 1..NumRows(Len(question_cnts)) |->
                RowCells(question_cnts, r - 1, key)])

\* The cells visited before the first exception (all of them if none raises).
Visited(cells) ==
    LET raisers == {i \in 1..Len(cells) : cells[i].raises}
    IN  IF raisers = {} THEN cells ELSE SubSeq(cells, 1, Min(raisers))

\* the final value of `correct`
CorrectCount(cells) ==
    Cardinality({i \in 1..Len(cells) : cells[i].counted})

(***************************************************************************)
(* Results.  A result is the returned dict: a record whose fields are the  *)
(* dict's keys.  `percentage` is the exact quotient (correct /             *)
(* total_questions) * 100 as a fraction <<numerator, denominator>>; the    *)
(* rounding of the float arithmetic is not modelled.  `found` is the count *)
(* that line 38 formats into the error text.                               *)
(***************************************************************************)
NoResult == [status |-> "not called"]

DecodeFailed == [error |-> "Failed to decode image."]

DetectionFailed(n) == [error |-> "Bubble detection failed", found |-> n]

CriticalError == [error |-> "A critical error occurred during image processing."]

\* an exception that leaves process_omr_sheet instead of being caught
Propagated(exc) == [raised |-> exc]

\* lines 76-77: whatever exception the body raises becomes this result
Caught(exc) == CriticalError

\* lines 74-75 with the options of a question taken for the denominator
Report_PerOption(correct) ==
    [total_questions |-> total_questions, correct |-> correct,
     percentage |-> <<correct * 100, options_per_question>>, error |-> "None"]

\* lines 74-75
Report(correct) ==
    [total_questions |-> total_questions, correct |-> correct,
     percentage |-> <<correct * 100, total_questions>>, error |-> "None"]

\* line 37 off by one
TooFewCandidates_OffByOne(n) == n < MinCandidates - 1

\* line 37: too few bubble candidates
TooFewCandidates(n) == n < MinCandidates

\* the keys that line 70 looks up for the visited cells
LookedUp(cells) == {PyStr(cells[i].question_num) : i \in 1..Len(cells)}

\* The whole of process_omr_sheet, lines 11-77: the returned dict and the
\* values it computed on the way.
ProcessOmrSheet(image, key) ==
    IF ~image.decodes
    THEN [result |-> DecodeFailed, stage |-> "decode", n |-> 0, cells |-> <<>>,
          key |-> key]
    ELSE LET question_cnts == FilterContours(image.contours)
             n == Len(question_cnts)
         IN  IF TooFewCandidates(n)
             THEN [result |-> DetectionFailed(n), stage |-> "detect",
                   n |-> n, cells |-> <<>>, key |-> key]
             ELSE LET sorted == SortContours(question_cnts, "top-to-bottom")
                      cells == Visited(GridCells(sorted, key))
                      key_after == DictAfterGet(key, LookedUp(cells))
                  IN  IF \E i \in 1..Len(cells) : cells[i].raises
                      THEN [result |-> Caught("TypeError"), stage |-> "score",
                            n |-> n, cells |-> cells, key |-> key_after]
                      ELSE [result |-> Report(CorrectCount(cells)),
                            stage |-> "done", n |-> n, cells |-> cells,
                            key |-> key_after]

(***************************************************************************)
(* The parts of the state that a specification does not use.               *)
(***************************************************************************)
\* omr_processor.py lines 7-9
NewProcessor(debug) == [debug |-> debug, processed_image_for_debug |-> None]

\* main.py lines 9-16: the processor that get_processor constructs in a new
\* session.  Line 14 has set debug_mode to True before the call of line 15,
\* so line 11 passes debug=True, and line 16 assigns True again.
GetProcessor == NewProcessor(TRUE)

\* Argument values of any Python type: the type's name and the value.  A
\* str names a file; its value here is the image that the file holds.
BytesObject(image) == [type |-> "bytes", val |-> image]
PathObject(image) == [type |-> "str", val |-> image]
DictObject(d) == [type |-> "dict", val |-> d]
NoneObject == [type |-> "NoneType", val |-> <<>>]

IdleFrame ==
    [pc |-> "idle", call |-> "none", image_bytes |-> NoneObject,
     answer_key |-> NoneObject, cnts |-> <<>>, result |-> NoResult]

\* the cached processor, on which no activation is followed
NoWorkers ==
    /\ processor = GetProcessor
    /\ frames = <<>>
    /\ returned = <<>>

NoBatch == batch = [caller |-> "none"]

NoDatabase == db = [open |-> FALSE]

\* no browser session
NoSession == session = [open |-> FALSE]

(***************************************************************************)
(* Inputs: sheets of the hard-coded layout and answer keys.                *)
(***************************************************************************)
\* ink pixels inside an unmarked bubble (its printed outline) and inside a
\* fully marked one
OutlineInk == 2
DarkInk == 9
\* at most this many bubble-shaped regions beside the printed grid, bubbles
\* of the grid that detection misses, and regions that are no bubbles
MaxExtra == 2
MaxMissing == 1
MaxNoise == 3

\* the ink counts of the four options of one question
Marked(S) ==
    [j \in 0..(options_per_question - 1) |->
        IF j \in S THEN DarkInk ELSE OutlineInk]
Unmarked == Marked({})
\* a smudge in the last bubble, lighter than a mark
Smudged ==
    [j \in 0..(options_per_question - 1) |->
        IF j = options_per_question - 1 THEN OutlineInk + 1 ELSE OutlineInk]

\* two marks, the first a little lighter than the second
Doubled ==
    [j \in 0..(options_per_question - 1) |->
        IF j = 0 THEN DarkInk - 1 ELSE IF j = 1 THEN DarkInk ELSE OutlineInk]

\* how a respondent's single marks, or a key's answers, run over the questions
Schemes == {"A", "C", "rot"}
SchemeOption(s, q) ==
    IF s = "A" THEN 0 ELSE IF s = "C" THEN 2 ELSE (q - 1) % options_per_question

Questions == 1..total_questions

\* what a sheet shows for its special questions
Patterns == {Unmarked, Smudged, Doubled, Marked({0, 1}), Marked({1, 3}),
             Marked({0, 1, 2, 3})}
SpecialSets == {{1}, {57}, Questions}

\* the marks of a sheet: one mark per question by scheme s, except the
\* questions of `special`, which show `pattern`
Marking(s, special, pattern) ==
    [q \in Questions |->
        IF q \in special THEN pattern ELSE Marked({SchemeOption(s, q)})]

\* no ink at all in the four bubbles of a question
Erased == [j \in 0..(options_per_question - 1) |-> 0]

Markings ==
    {Marking(s, {}, Unmarked) : s \in Schemes}
      \cup {Marking("rot", {1}, Erased)}
      \cup {Marking(s, sp, pt) : s \in Schemes, sp \in SpecialSets, pt \in Patterns}

\* A printed bubble of physical row r, position p (both 0-based) of the sheet,
\* as detection gives it: (x, y) is the corner of its bounding rectangle.
Bubble(r, p, ink, jitter) ==
    [id |-> 0, x |-> 100 + 30 * p,
     y |-> 150 + 40 * r + (IF jitter THEN p % 3 ELSE 0),
     w |-> 16, h |-> 16, area |-> 200, ink |-> ink]

\* The question printed at row r, position p: the first block of four columns
\* holds questions 1..20 top to bottom, the next one 21..40, and so on.
PrintedQuestion(r, p) == (p \div options_per_question) * RowsPerBlock + r + 1

\* the bubbles of the grid in scan order, the last `missing` ones left out
GridBubbles(marks, jitter, missing) ==
    [i \in 1..(MaxRows * RowSize - missing) |->
        LET r == (i - 1) \div RowSize
            p == (i - 1) % RowSize
        IN  Bubble(r, p, marks[PrintedQuestion(r, p)][p % options_per_question],
                   jitter)]

\* bubble-shaped regions that are no bubbles of the grid (a logo, a stamp):
\* above the grid or below it
ExtraShapes(k, above) ==
    [i \in 1..k |->
        [id |-> 0, x |-> 40 + 20 * i, y |-> IF above THEN 60 ELSE 1000,
         w |-> 14, h |-> 12, area |-> 120, ink |-> DarkInk]]

\* regions the shape filter rejects: a speck, a rule line, a thin outline,
\* an upright stroke
NoiseShapes(k) ==
    SubSeq(<<[id |-> 0, x |-> 10, y |-> 155, w |-> 4, h |-> 4, area |-> 12,
              ink |-> DarkInk],
             [id |-> 0, x |-> 5, y |-> 400, w |-> 300, h |-> 12, area |-> 3000,
              ink |-> DarkInk],
             [id |-> 0, x |-> 20, y |-> 700, w |-> 16, h |-> 16, area |-> 40,
              ink |-> OutlineInk],
             [id |-> 0, x |-> 750, y |-> 300, w |-> 12, h |-> 60, area |-> 500,
              ink |-> DarkInk]>>, 1, k)

Reverse(s) == [i \in 1..Len(s) |-> s[Len(s) + 1 - i]]

WithIds(cnts) == [i \in 1..Len(cnts) |-> [cnts[i] EXCEPT !.id = i]]

\* The image of a sheet: its contours in detection order.
Sheet(marks, g) ==
    LET scan == NoiseShapes(g.noise) \o ExtraShapes(g.extraTop, TRUE)
                  \o GridBubbles(marks, g.jitter, g.missing)
                  \o ExtraShapes(g.extraBottom, FALSE)
    IN  [decodes |-> TRUE,
         contours |-> WithIds(IF g.reversed THEN Reverse(scan) ELSE scan)]

Undecodable == [decodes |-> FALSE, contours |-> <<>>]

CleanScan ==
    [jitter |-> FALSE, reversed |-> FALSE, extraTop |-> 0, extraBottom |-> 0,
     missing |-> 0, noise |-> 0]

Scans ==
    [jitter : BOOLEAN, reversed : BOOLEAN, extraTop : {0, MaxExtra},
     extraBottom : {0, MaxExtra}, missing : {0, MaxMissing},
     noise : {0, MaxNoise}]

\* An answer key as main.py builds it: the questions of `covered`, under
\* their decimal strings, with the answers of scheme s.
KeyOf(s, covered) ==
    [k \in {PyStr(q) : q \in covered} |->
        LET q == CHOOSE q \in covered : PyStr(q) = k IN SchemeOption(s, q)]

Coverages == {Questions, 1..5, Questions \ {57}, 1..(total_questions + 20)}

AnswerKeys == {KeyOf(s, cov) : s \in Schemes, cov \in Coverages} \cup {<<>>}

Inputs ==
    {[image |-> Sheet(m, CleanScan), key |-> k] : m \in Markings, k \in AnswerKeys}
      \cup {[image |-> Sheet(Marking("rot", {}, Unmarked), g),
              key |-> KeyOf("rot", Questions)] : g \in Scans}
      \cup {[image |-> Undecodable, key |-> k] : k \in AnswerKeys}

\* no call has been made
NotCalled ==
    /\ image_bytes = Undecodable /\ answer_key = <<>>
    /\ result = NoResult
    /\ run = [stage |-> "none", n |-> 0, cells |-> <<>>]
    /\ pc = "unused"

Init ==
    /\ \E in \in Inputs : image_bytes = in.image /\ answer_key = in.key
    /\ result = NoResult
    /\ run = [stage |-> "none", n |-> 0, cells |-> <<>>]
    /\ pc = "ready"
    /\ NoWorkers /\ NoBatch /\ NoDatabase /\ NoSession

Call ==
    /\ pc = "ready"
    /\ LET out == ProcessOmrSheet(image_bytes, answer_key)
       IN  /\ result' = out.result
           /\ run' = [stage |-> out.stage, n |-> out.n, cells |-> out.cells]
           /\ answer_key' = out.key
    /\ pc' = "done"
    /\ UNCHANGED <<image_bytes, workerVars, batch, db, session>>

Next == Call

Spec == Init /\ [][Next]_vars

(***************************************************************************)
(* Calls on the shared processor.  main.py builds one OMRProcessor, caches *)
(* it with st.cache_resource and hands the same instance to every script   *)
(* run, so several activations of process_omr_sheet can be in progress on  *)
(* it at once.  An activation is followed through the three stretches of   *)
(* the method body; its working values are the locals of its frame.        *)
(***************************************************************************)
\* the frame whose locals the activation of worker w reads, with one frame
\* shared by all activations
Local_Shared(fr, w) == fr[CHOOSE v \in DOMAIN fr : \A u \in DOMAIN fr : v <= u]

\* the frame whose locals the activation of worker w reads
Local(fr, w) == fr[w]

\* lines 12-21: np.frombuffer raises TypeError for an argument that is not
\* bytes-like; an image that does not decode is reported
DecodeStage(self, bytes) ==
    IF bytes.type # "bytes"
    THEN [pc |-> "returned", cnts |-> <<>>, result |-> Caught("TypeError")]
    ELSE IF ~bytes.val.decodes
         THEN [pc |-> "returned", cnts |-> <<>>, result |-> DecodeFailed]
         ELSE [pc |-> "decoded", cnts |-> bytes.val.contours,
               result |-> NoResult]

\* lines 23-38 with the count check skipped in debug mode
DetectStage_DebugLenient(self, cnts) ==
    LET question_cnts == FilterContours(cnts)
        n == Len(question_cnts)
    IN  IF ~self.debug /\ TooFewCandidates(n)
        THEN [pc |-> "returned", cnts |-> <<>>, result |-> DetectionFailed(n)]
        ELSE [pc |-> "detected", cnts |-> question_cnts, result |-> NoResult]

\* lines 23-38
DetectStage(self, cnts) ==
    LET question_cnts == FilterContours(cnts)
        n == Len(question_cnts)
    IN  IF TooFewCandidates(n)
        THEN [pc |-> "returned", cnts |-> <<>>, result |-> DetectionFailed(n)]
        ELSE [pc |-> "detected", cnts |-> question_cnts, result |-> NoResult]

\* lines 40-77: the first answer_key.get raises AttributeError when the
\* argument is not a dict
ScoreStage(self, question_cnts, key) ==
    IF key.type # "dict"
    THEN [pc |-> "returned", cnts |-> <<>>, result |-> Caught("AttributeError")]
    ELSE LET sorted == SortContours(question_cnts, "top-to-bottom")
             cells == Visited(GridCells(sorted, key.val))
         IN  [pc |-> "returned", cnts |-> <<>>,
              result |-> IF \E i \in 1..Len(cells) : cells[i].raises
                         THEN Caught("TypeError")
                         ELSE Report(CorrectCount(cells))]

\* process_omr_sheet as one step, for arguments of any type
ProcessOmrSheetObjects(bytes, key) ==
    IF bytes.type # "bytes" THEN Caught("TypeError")
    ELSE IF key.type = "dict"
         THEN ProcessOmrSheet(bytes.val, key.val).result
         ELSE LET out == ProcessOmrSheet(bytes.val, <<>>)
              IN  IF out.stage = "done" THEN Caught("AttributeError")
                  ELSE out.result

\* the workers (script runs) that call the processor
Workers == {1, 2}

\* calls made in one behaviour
MaxCalls == 3

\* a sheet with every bubble detected and option A marked throughout, one
\* with a bubble lost, and the keys of option A
SheetA == Sheet(Marking("A", Questions, Marked({0})), CleanScan)
SheetShort == Sheet(Marking("A", Questions, Marked({0})),
                    [CleanScan EXCEPT !.missing = MaxMissing])

\* the calls a worker can make: a scored sheet, a sheet with too few
\* candidates, bytes that do not decode, a file path in place of the bytes
\* (as utils.process_images_batch passes it), and None in place of the key
CallArgs ==
    [scored |-> [image_bytes |-> BytesObject(SheetA),
                 answer_key |-> DictObject(KeyOf("A", 1..5))],
     short |-> [image_bytes |-> BytesObject(SheetShort),
                answer_key |-> DictObject(KeyOf("A", 1..5))],
     garbled |-> [image_bytes |-> BytesObject(Undecodable),
                  answer_key |-> DictObject(KeyOf("A", 1..5))],
     path |-> [image_bytes |-> PathObject(SheetA),
               answer_key |-> DictObject(KeyOf("A", 1..5))],
     nokey |-> [image_bytes |-> BytesObject(SheetA),
                answer_key |-> NoneObject]]

CallNames == DOMAIN CallArgs

\* what each call returns when it is the only one ever made
Alone == [c \in CallNames |->
            ProcessOmrSheetObjects(CallArgs[c].image_bytes, CallArgs[c].answer_key)]

Active == {w \in DOMAIN frames : frames[w].pc # "idle"}

InitWorkers ==
    /\ processor = GetProcessor
    /\ frames = [w \in Workers |-> IdleFrame]
    /\ returned = <<>>
    /\ NotCalled /\ NoBatch /\ NoDatabase /\ NoSession

\* main.py line 16 (and the checkbox of line 20): a script run sets the
\* debug flag of the shared processor
SetDebug(b) ==
    /\ processor.debug # b
    /\ processor' = [processor EXCEPT !.debug = b]
    /\ UNCHANGED <<frames, returned>>

\* line 11: worker w calls process_omr_sheet
BeginCall(w, c) ==
    /\ frames[w].pc = "idle"
    /\ Len(returned) + Cardinality(Active) < MaxCalls
    /\ frames' = [frames EXCEPT ![w] =
                    [IdleFrame EXCEPT !.pc = "called", !.call = c,
                                      !.image_bytes = CallArgs[c].image_bytes,
                                      !.answer_key = CallArgs[c].answer_key]]
    /\ UNCHANGED <<processor, returned>>

Decode(w) ==
    /\ frames[w].pc = "called"
    /\ LET out == DecodeStage(processor, Local(frames, w).image_bytes)
       IN  frames' = [frames EXCEPT ![w].pc = out.pc, ![w].cnts = out.cnts,
                                    ![w].result = out.result]
    /\ UNCHANGED <<processor, returned>>

Detect(w) ==
    /\ frames[w].pc = "decoded"
    /\ LET out == DetectStage(processor, Local(frames, w).cnts)
       IN  frames' = [frames EXCEPT ![w].pc = out.pc, ![w].cnts = out.cnts,
                                    ![w].result = out.result]
    /\ UNCHANGED <<processor, returned>>

Score(w) ==
    /\ frames[w].pc = "detected"
    /\ LET out == ScoreStage(processor, Local(frames, w).cnts,
                             Local(frames, w).answer_key)
       IN  frames' = [frames EXCEPT ![w].pc = out.pc, ![w].cnts = out.cnts,
                                    ![w].result = out.result]
    /\ UNCHANGED <<processor, returned>>

\* the caller takes the returned value
Return(w) ==
    /\ frames[w].pc = "returned"
    /\ returned' = Append(returned, [call |-> frames[w].call,
                                     result |-> frames[w].result])
    /\ frames' = [frames EXCEPT ![w] = IdleFrame]
    /\ UNCHANGED processor

NextWorkers ==
    /\ \/ \E b \in BOOLEAN : SetDebug(b)
       \/ \E w \in Workers, c \in CallNames : BeginCall(w, c)
       \/ \E w \in Workers : Decode(w)
       \/ \E w \in Workers : Detect(w)
       \/ \E w \in Workers : Score(w)
       \/ \E w \in Workers : Return(w)
    /\ UNCHANGED <<callVars, batch, db, session>>

SpecWorkers == InitWorkers /\ [][NextWorkers]_vars

(***************************************************************************)
(* Batches.  main.py lines 33-46 loop over the uploaded files and          *)
(* utils.process_images_batch (lines 333-357) loops over image paths; both *)
(* call process_omr_sheet once per item.  `submitted` lists the positions  *)
(* of the items for which the call was made, `skipped` those whose         *)
(* iteration ended in the except clause of utils line 354 before the call. *)
(* The items of process_images_batch are paths by its signature; a caller  *)
(* can also hand it the file contents, which is the only way for the call  *)
(* of line 344 to get bytes (`items`).  `succeeded` lists the items for    *)
(* which process_omr_sheet returned a report, `results` is the list that   *)
(* the loop builds.                                                        *)
(***************************************************************************)
\* files of a batch
MaxBatch == 3

FileNames == {"scored", "short", "garbled"}

\* the image a file holds
FileImage(name) == CallArgs[name].image_bytes.val

\* the answer key of the batch
BatchKey == CallArgs["scored"].answer_key

Batches == UNION {[1..n -> FileNames] : n \in 1..MaxBatch}

\* the loop position after the iteration at position i, for a loop that
\* gives up at the first item that fails
AfterIteration_AbortOnFailure(i, n, failed) == IF failed THEN n ELSE i + 1

\* the loop position after the iteration at position i of n: both loops go
\* on to the next item whether or not the item failed
AfterIteration(i, n, failed) == i + 1

InitBatch ==
    /\ \E caller \in {"main", "utils"}, callback \in BOOLEAN,
          items \in {"bytes", "paths"}, files \in Batches :
          /\ caller = "main" => ~callback /\ items = "bytes"
          /\ batch = [caller |-> caller, callback |-> callback, items |-> items,
                      files |-> files, i |-> 0, submitted |-> <<>>,
                      skipped |-> {}, succeeded |-> <<>>, results |-> <<>>,
                      failed |-> <<>>, done |-> FALSE]
    /\ NotCalled /\ NoWorkers /\ NoDatabase /\ NoSession

\* main.py lines 34-46: one uploaded file
MainIteration ==
    /\ batch.caller = "main" /\ ~batch.done /\ batch.i < Len(batch.files)
    /\ LET name == batch.files[batch.i + 1]
           res == ProcessOmrSheetObjects(BytesObject(FileImage(name)), BatchKey)
           ok == res.error = "None"
       IN  batch' = [batch EXCEPT
                        !.submitted = Append(@, batch.i + 1),
                        !.succeeded = IF res.error = "None" THEN Append(@, name)
                                      ELSE @,
                        !.results = IF ok THEN Append(@, ("filename" :> name) @@ res)
                                    ELSE @,
                        !.failed = IF ok THEN @ ELSE Append(@, name),
                        !.i = AfterIteration(@, Len(batch.files), ~ok)]
    /\ UNCHANGED <<callVars, workerVars, db, session>>

\* utils.py lines 338-352: one item, the progress callback (if any)
\* returns; the item itself is passed where the bytes are expected
BatchIteration ==
    /\ batch.caller = "utils" /\ ~batch.done /\ batch.i < Len(batch.files)
    /\ LET name == batch.files[batch.i + 1]
           item == IF batch.items = "bytes" THEN BytesObject(FileImage(name))
                   ELSE PathObject(FileImage(name))
           res == ProcessOmrSheetObjects(item, BatchKey)
           ok == "error" \notin DOMAIN res
       IN  batch' = [batch EXCEPT
                        !.submitted = Append(@, batch.i + 1),
                        !.succeeded = IF res.error = "None" THEN Append(@, name)
                                      ELSE @,
                        !.results = IF ok THEN Append(@, ("filename" :> name) @@ res)
                                    ELSE @,
                        !.failed = IF ok THEN @ ELSE Append(@, name),
                        !.i = AfterIteration(@, Len(batch.files), ~ok)]
    /\ UNCHANGED <<callVars, workerVars, db, session>>

\* utils.py lines 340-341 and 354-355: the progress callback raises, the
\* except clause logs it and the item is left without a call
BatchCallbackRaises ==
    /\ batch.caller = "utils" /\ batch.callback
    /\ ~batch.done /\ batch.i < Len(batch.files)
    /\ batch' = [batch EXCEPT
                    !.skipped = @ \cup {batch.i + 1},
                    !.failed = Append(@, batch.files[batch.i + 1]),
                    !.i = AfterIteration(@, Len(batch.files), TRUE)]
    /\ UNCHANGED <<callVars, workerVars, db, session>>

\* the loop is over (utils line 357 returns the results)
BatchEnd ==
    /\ batch.caller # "none" /\ ~batch.done /\ batch.i = Len(batch.files)
    /\ batch' = [batch EXCEPT !.done = TRUE]
    /\ UNCHANGED <<callVars, workerVars, db, session>>

NextBatch == MainIteration \/ BatchIteration \/ BatchCallbackRaises \/ BatchEnd

SpecBatch == InitBatch /\ [][NextBatch]_vars

(***************************************************************************)
(* The database of models.py: the answer_keys table.  version is UNIQUE    *)
(* (line 70), so the table is a function from the stored versions to the   *)
(* stored answer_key column, a JSON text.  A JSON text of an object is     *)
(* modelled by its members, from the member names (the digits between the  *)
(* quotes) to the values.  `given` remembers the dict that the last        *)
(* save_answer_key of a version was called with and `last` is the last     *)
(* call with its return value (<<d>> for a dict d, None for None).         *)
(***************************************************************************)
\* the int key n of a dict
PyInt(n) == [t |-> "int", d |-> Digits(n)]

\* json.dumps of a dict whose keys are all str or all int: json writes an
\* int key as the string of its digits
JsonDumps(d) == [name \in {k.d : k \in DOMAIN d} |->
                    d[CHOOSE k \in DOMAIN d : k.d = name]]

\* json.loads of an object: every member name comes back as a str key
JsonLoads(text) == [k \in {[t |-> "str", d |-> name] : name \in DOMAIN text} |->
                        text[k.d]]

\* a function with one more (or one replaced) entry
Put(f, x, y) == [z \in DOMAIN f \cup {x} |-> IF z = x THEN y ELSE f[z]]

Versions == {"test_version", "v2"}

\* the key of tests/test_omr.py line 131 ({1: 0, 2: 1, 3: 2}), the same key
\* with str keys, two other keys and the empty key
DbKeys ==
    {[k \in {PyInt(1), PyInt(2), PyInt(3)} |-> k.d[1] - 1],
     [k \in {PyStr(1), PyStr(2), PyStr(3)} |-> k.d[1] - 1],
     [k \in {PyStr(1), PyStr(12)} |-> 3],
     [k \in {PyInt(total_questions)} |-> 1],
     <<>>}

\* Every method opens its own connection, sqlite3.connect(self.db_path).
\* For the path ":memory:" (tests/test_omr.py line 104) each connection is a
\* new empty database, without the tables that create_tables made on its
\* own connection, so every statement raises sqlite3.OperationalError.
DbPaths == {"omr_results.db", ":memory:"}
HasTables(d) == d.path # ":memory:"

\* a database whose tables were created: no rows; the largest id that
\* omr_results ever gave out (sqlite_sequence) is 0
NewDatabase(path) ==
    [open |-> TRUE, path |-> path, answer_keys |-> <<>>, given |-> <<>>,
     results |-> <<>>, seq |-> 0, settings |-> <<>>,
     issued |-> <<>>, saved |-> <<>>, live |-> {},
     last |-> [op |-> "none", version |-> "", id |-> 0, ret |-> None]]

\* models.py lines 38-41 and 43-92: a new database, its tables created
InitDb ==
    /\ \E path \in DbPaths : db = NewDatabase(path)
    /\ NotCalled /\ NoWorkers /\ NoBatch /\ NoSession

\* models.py lines 188-206
SaveAnswerKey(version, key) ==
    /\ db.open
    /\ db' = IF HasTables(db)
             THEN [db EXCEPT
                     !.answer_keys = Put(@, version, JsonDumps(key)),
                     !.given = Put(@, version, key),
                     !.last = [op |-> "save_answer_key", version |-> version,
                               id |-> 0, ret |-> <<TRUE>>]]
             ELSE [db EXCEPT
                     !.last = [op |-> "save_answer_key", version |-> version,
                               id |-> 0, ret |-> <<FALSE>>]]
    /\ UNCHANGED <<callVars, workerVars, batch, session>>

\* models.py lines 208-225
GetAnswerKey(version) ==
    /\ db.open
    /\ db' = [db EXCEPT
                !.last = [op |-> "get_answer_key", version |-> version,
                          id |-> 0,
                          ret |-> IF HasTables(db) /\ version \in DOMAIN db.answer_keys
                                  THEN <<JsonLoads(db.answer_keys[version])>>
                                  ELSE None]]
    /\ UNCHANGED <<callVars, workerVars, batch, session>>

NextDb ==
    \/ \E version \in Versions, key \in DbKeys : SaveAnswerKey(version, key)
    \/ \E version \in Versions : GetAnswerKey(version)

SpecDb == InitDb /\ [][NextDb]_vars

(***************************************************************************)
(* The omr_results and settings tables.  omr_results is a function from    *)
(* the ids of its rows to the stored columns; its id is INTEGER PRIMARY    *)
(* KEY AUTOINCREMENT (line 50), so a new row gets one more than the        *)
(* largest id the table ever held, deleted rows included.  `issued` lists  *)
(* the ids that save_result returned, `saved` the OMRResult each was       *)
(* called with and `live` the ids issued since the results were last       *)
(* cleared.                                                                *)
(***************************************************************************)
\* save_result calls in one behaviour
MaxSaves == 3

\* the id of a new row when ids are not AUTOINCREMENT: one more than the
\* largest id among the rows present
NextId_LargestPresent(d) ==
    IF DOMAIN d.results = {} THEN 1 ELSE Max(DOMAIN d.results) + 1

\* the id of a new row (cursor.lastrowid of line 117)
NextId(d) == d.seq + 1

\* the OMRResult of tests/test_omr.py lines 114-123 and another one;
\* processed_at is set when the object is made (models.py lines 31-33)
OMRResults ==
    {[filename |-> "test.jpg", sheet_version |-> "A", total_questions |-> 100,
      correct_answers |-> 85, percentage |-> <<85, 1>>,
      subject_scores |-> "{\"Subject_1\": ...}", detailed_results |-> "{\"1\": ...}",
      processing_info |-> "{\"bubbles_detected\": 500}",
      processed_at |-> "t"],
     [filename |-> "b.png", sheet_version |-> "B", total_questions |-> 100,
      correct_answers |-> 0, percentage |-> <<0, 1>>,
      subject_scores |-> "{}", detailed_results |-> "{}",
      processing_info |-> "{}", processed_at |-> "t"]}

\* the OMRResult that lines 135-146 and 166-177 build from a row of
\* SELECT *, whose columns come in the order of lines 50-60
RowToResult(row) ==
    [id |-> row[1], filename |-> row[2], sheet_version |-> row[3],
     total_questions |-> row[4], correct_answers |-> row[5],
     percentage |-> row[6], subject_scores |-> row[7],
     detailed_results |-> row[8], processing_info |-> row[9],
     processed_at |-> row[10]]

\* the row that the INSERT of lines 100-114 makes of an OMRResult: the id
\* is the table's, created_at is CURRENT_TIMESTAMP
ResultToRow(id, r) ==
    <<id, r.filename, r.sheet_version, r.total_questions, r.correct_answers,
      r.percentage, r.subject_scores, r.detailed_results, r.processing_info,
      r.processed_at, "now">>

\* a caller's OMRResult: its id is None (0 here) until it is read back
NewResult(r) ==
    [filename |-> r.filename, sheet_version |-> r.sheet_version,
     total_questions |-> r.total_questions, correct_answers |-> r.correct_answers,
     percentage |-> r.percentage, subject_scores |-> r.subject_scores,
     detailed_results |-> r.detailed_results,
     processing_info |-> r.processing_info, processed_at |-> r.processed_at,
     id |-> 0]

\* models.py lines 94-125: the exception is raised again (None here:
\* a call that returns gives an int)
SaveResult(r) ==
    /\ db.open
    /\ Len(db.issued) < MaxSaves
    /\ db' = IF HasTables(db)
             THEN LET id == NextId(db)
                  IN  [db EXCEPT
                         !.results = Put(@, id, ResultToRow(id, NewResult(r))),
                         !.seq = IF id > @ THEN id ELSE @,
                         !.issued = Append(@, id),
                         !.saved = Put(@, id, NewResult(r)),
                         !.live = @ \cup {id},
                         !.last = [op |-> "save_result", version |-> "",
                                   id |-> 0, ret |-> <<id>>]]
             ELSE [db EXCEPT
                     !.last = [op |-> "save_result", version |-> "",
                               id |-> 0, ret |-> None]]
    /\ UNCHANGED <<callVars, workerVars, batch, session>>

\* models.py lines 127-153
GetResult(id) ==
    /\ db.open
    /\ db' = [db EXCEPT
                !.last = [op |-> "get_result", version |-> "", id |-> id,
                          ret |-> IF HasTables(db) /\ id \in DOMAIN db.results
                                  THEN <<RowToResult(db.results[id])>>
                                  ELSE None]]
    /\ UNCHANGED <<callVars, workerVars, batch, session>>

\* models.py lines 155-186: the list, as the set of its entries
GetAllResults ==
    /\ db.open
    /\ db' = [db EXCEPT
                !.last = [op |-> "get_all_results", version |-> "", id |-> 0,
                          ret |-> IF HasTables(db)
                                  THEN {RowToResult(db.results[id]) :
                                          id \in DOMAIN db.results}
                                  ELSE {}]]
    /\ UNCHANGED <<callVars, workerVars, batch, session>>

\* the tables after a DELETE that takes the answer keys along
AfterDelete_KeysToo(d) == [d EXCEPT !.results = <<>>, !.answer_keys = <<>>]

\* the tables after DELETE FROM omr_results (line 270)
AfterDelete(d) == [d EXCEPT !.results = <<>>]

\* models.py lines 264-278
ClearAllResults ==
    /\ db.open
    /\ db' = IF HasTables(db)
             THEN [AfterDelete(db) EXCEPT
                     !.live = {},
                     !.last = [op |-> "clear_all_results", version |-> "",
                               id |-> 0, ret |-> <<TRUE>>]]
             ELSE [db EXCEPT
                     !.last = [op |-> "clear_all_results", version |-> "",
                               id |-> 0, ret |-> <<FALSE>>]]
    /\ UNCHANGED <<callVars, workerVars, batch, session>>

SettingKeys == {"theme"}
SettingValues == {"dark", "light"}

\* models.py lines 280-296
SaveSetting(key, value) ==
    /\ db.open
    /\ db' = IF HasTables(db)
             THEN [db EXCEPT
                     !.settings = Put(@, key, value),
                     !.last = [op |-> "save_setting", version |-> key,
                               id |-> 0, ret |-> <<TRUE>>]]
             ELSE [db EXCEPT
                     !.last = [op |-> "save_setting", version |-> key,
                               id |-> 0, ret |-> <<FALSE>>]]
    /\ UNCHANGED <<callVars, workerVars, batch, session>>

\* models.py lines 298-312, called without a default
GetSetting(key) ==
    /\ db.open
    /\ db' = [db EXCEPT
                !.last = [op |-> "get_setting", version |-> key, id |-> 0,
                          ret |-> IF HasTables(db) /\ key \in DOMAIN db.settings
                                  THEN <<db.settings[key]>>
                                  ELSE None]]
    /\ UNCHANGED <<callVars, workerVars, batch, session>>

\* the answer keys saved beside the results
StoredKeys == {[k \in {PyStr(1), PyStr(2), PyStr(3)} |-> k.d[1] - 1], <<>>}

NextDbResults ==
    \/ \E r \in OMRResults : SaveResult(r)
    \/ \E id \in 1..(MaxSaves + 1) : GetResult(id)
    \/ GetAllResults
    \/ ClearAllResults
    \/ \E key \in SettingKeys, value \in SettingValues : SaveSetting(key, value)
    \/ \E key \in SettingKeys : GetSetting(key)
    \/ \E key \in StoredKeys : SaveAnswerKey("test_version", key)
    \/ GetAnswerKey("test_version")

SpecDbResults == InitDb /\ [][NextDbResults]_vars

(***************************************************************************)
(* The two forms of a loaded answer key.  main.py line 28 turns the        *)
(* members of the uploaded JSON object into a dict with str keys;          *)
(* utils.validate_answer_key_file returns them in a dict with int keys.    *)
(* One call of process_omr_sheet is made with a key of either form.        *)
(***************************************************************************)
\* A key file is the list of the members of its JSON object in the order of
\* the file, each a name (a string of digits) and a value.

\* the file that holds the entries of scheme s for the questions of
\* `covered`, in ascending order
KeyFile(s, covered) ==
    LET qs == SelectSeq([q \in 1..(2 * total_questions) |-> q],
                        LAMBDA q : q \in covered)
    IN  [i \in 1..Len(qs) |->
            [name |-> Digits(qs[i]), value |-> SchemeOption(s, qs[i])]]

\* a file whose question numbers are written with a leading zero
\* ("01" .. "05"), and one that names question 1 twice ("1" and "01")
PaddedFile == [i \in 1..5 |-> [name |-> <<0>> \o Digits(i), value |-> 0]]
TwiceNamedFile == <<[name |-> <<1>>, value |-> 0], [name |-> <<0, 1>>, value |-> 2]>>

KeyFiles ==
    {KeyFile(s, cov) : s \in Schemes, cov \in Coverages}
      \cup {PaddedFile, TwiceNamedFile}

\* json.load / json.loads of the file: the dict, as its items in order.  A
\* name that the file repeats keeps its first place and its last value.
LoadedItems(members) ==
    LET n == Len(members)
        idx == SelectSeq([i \in 1..n |-> i],
                         LAMBDA i : \A j \in 1..(i - 1) :
                                       members[j].name # members[i].name)
        last(name) == CHOOSE i \in 1..n :
                        /\ members[i].name = name
                        /\ \A j \in (i + 1)..n : members[j].name # name
    IN  [k \in 1..Len(idx) |->
            [name |-> members[idx[k]].name,
             value |-> members[last(members[idx[k]].name)].value]]

\* the JSON object of the file as a text: its names and their values
JsonObject(members) ==
    LET items == LoadedItems(members)
    IN  [name \in {items[i].name : i \in 1..Len(items)} |->
            items[CHOOSE i \in 1..Len(items) : items[i].name = name].value]

\* main.py line 28: {str(k): v for k, v in json.load(uploaded_key).items()}
SessionKey(text) ==
    LET loaded == JsonLoads(text)
    IN  [k \in {[t |-> "str", d |-> j.d] : j \in DOMAIN loaded} |-> loaded[k]]

RECURSIVE IntOf(_)
\* int(k) for a string of decimal digits: leading zeros do not count
IntOf(ds) ==
    IF ds = <<>> THEN 0
    ELSE 10 * IntOf(SubSeq(ds, 1, Len(ds) - 1)) + ds[Len(ds)]

\* utils.py lines 442-453: every question number is in 1..200 and every
\* answer in 0..4 (int("") raises ValueError, line 447)
KeyFileValid(items) ==
    \A i \in 1..Len(items) :
        /\ items[i].name # <<>>
        /\ IntOf(items[i].name) >= 1 /\ IntOf(items[i].name) <= 200
        /\ items[i].value >= 0 /\ items[i].value <= 4

\* utils.py line 456: {int(k): v for k, v in answer_key.items()}.  Names of
\* the same number fall on one key, which gets the value of the last of them.
IntKeyed(items) ==
    [k \in {PyInt(IntOf(items[i].name)) : i \in 1..Len(items)} |->
        LET same == {i \in 1..Len(items) : PyInt(IntOf(items[i].name)) = k}
        IN  items[Max(same)].value]

\* utils.py lines 432-463 for a file that is JSON and holds an object: the
\* first and the third element of the returned tuple
ValidateAnswerKeyFile(members) ==
    LET items == LoadedItems(members)
    IN  IF KeyFileValid(items)
        THEN [valid |-> TRUE, key |-> IntKeyed(items)]
        ELSE [valid |-> FALSE, key |-> None]

InitKeyForms ==
    /\ \E s \in Schemes, file \in KeyFiles, form \in {"session", "validated"} :
          /\ form = "validated" => ValidateAnswerKeyFile(file).valid
          /\ image_bytes = Sheet(Marking(s, {}, Unmarked), CleanScan)
          /\ answer_key = IF form = "session" THEN SessionKey(JsonObject(file))
                          ELSE ValidateAnswerKeyFile(file).key
    /\ result = NoResult
    /\ run = [stage |-> "none", n |-> 0, cells |-> <<>>]
    /\ pc = "ready"
    /\ NoWorkers /\ NoBatch /\ NoDatabase /\ NoSession

SpecKeyForms == InitKeyForms /\ [][Next]_vars

(***************************************************************************)
(* The interactive session of main.py.  Streamlit runs main() anew after   *)
(* every interaction with a widget.  An interaction does not act on the    *)
(* script at once: it changes the widget and asks for a new run; the run   *)
(* of main() in progress goes on to its next st call, where it is stopped, *)
(* and the new run starts with the widget values of that moment.           *)
(* st.session_state lasts for the session and keeps what a stopped run had *)
(* assigned.  The page in the browser keeps the button as it was last      *)
(* drawn until a run reaches line 32 again.                                *)
(*                                                                         *)
(* A run of main() is followed from one st call to the next:               *)
(*   "load"    within lines 14-24 (st calls of lines 19-24), before the    *)
(*             key is loaded;                                              *)
(*   "button"  after lines 26-30 (st call of line 29 or 30), before the    *)
(*             button call of line 32;                                     *)
(*   "loop"    inside the loop of lines 34-46 between two files (st calls  *)
(*             of lines 35, 42, 44, 46);                                   *)
(*   "idle"    the run has reached the end of main().                      *)
(* The debug checkbox of line 20 changes what is displayed only and is     *)
(* left out.                                                               *)
(***************************************************************************)
\* clicks on the process button in one behaviour
MaxRuns == 2

\* files for the answer-key uploader: two keys as JSON objects, a JSON
\* array, and text that is not JSON
KeyUploads ==
    {[kind |-> "object", text |-> JsonDumps(KeyOf("A", Questions))],
     [kind |-> "object", text |-> JsonDumps(KeyOf("C", 1..5))],
     [kind |-> "array", text |-> <<>>],
     [kind |-> "garbled", text |-> <<>>]}

\* the selections of the sheet uploader
SheetUploads == {<<>>, <<"scored">>, <<"garbled", "scored">>}

\* main.py line 28 raises: json.load for text that is not JSON, .items()
\* for a JSON value that is not an object
KeyLoadRaises(file) == file.kind # "object"

\* the session state after an upload that failed, for a page that drops
\* the key it had
AfterFailedLoad_Forgets(s) == [s EXCEPT !.answer_key = None]

\* main.py line 30: the except branch reports the error and assigns nothing
AfterFailedLoad(s) == s

\* main.py lines 26-30, uploaded_key being the value line 22 returned
LoadKey(s) ==
    IF s.uploaded_key = None THEN s
    ELSE IF KeyLoadRaises(s.uploaded_key[1]) THEN AfterFailedLoad(s)
    ELSE [s EXCEPT !.answer_key = <<SessionKey(s.uploaded_key[1].text)>>,
                   !.loaded = <<SessionKey(s.uploaded_key[1].text)>>]

\* main.py line 32: disabled = not (uploaded_files and 'answer_key' in
\* st.session_state)
ButtonEnabled(s) == s.uploaded_files # <<>> /\ s.answer_key # None

\* main.py line 37 for every sheet and key of the session, computed once
SheetResults ==
    LET keys == {SessionKey(f.text) : f \in {g \in KeyUploads : g.kind = "object"}}
        names == UNION {{files[i] : i \in 1..Len(files)} : files \in SheetUploads}
        table == [p \in names \X keys |->
                    ProcessOmrSheetObjects(BytesObject(FileImage(p[1])),
                                           DictObject(p[2]))]
    IN  IF table = <<>> THEN <<>> ELSE table

\* main.py lines 34-46 for the files one after the other: the list that
\* the loop appends to
RECURSIVE ProcessAll(_, _)
ProcessAll(files, key) ==
    IF files = <<>> THEN <<>>
    ELSE LET name == Head(files)
             res == SheetResults[<<name, key>>]
             rest == ProcessAll(Tail(files), key)
         IN  IF res.error = "None" THEN <<("filename" :> name) @@ res>> \o rest
             ELSE rest

\* an interaction reaches the session: a run of main() is asked for, and a
\* click is kept for it
Interaction(s, click) ==
    [s EXCEPT !.rerun = IF @ = "due" THEN "due" ELSE "arrived",
              !.click = @ \/ click]

\* the script has gone on to its next st call: a run that was asked for
\* before stops there
Reached(s) == [s EXCEPT !.rerun = IF @ = "none" THEN "none" ELSE "due"]

\* a new run of main() starts, whatever the run before it had reached: lines
\* 14-24, the uploaders returning what the widgets hold (lines 22, 24) and
\* the button being pressed for this run only if it was clicked
Rerun(s) ==
    [s EXCEPT !.rerun = "none", !.click = FALSE, !.pressed = s.click,
              !.uploaded_key = s.key_widget,
              !.uploaded_files = s.sheets_widget,
              !.pc = "load"]

\* main.py line 32 without a click, or lines 32-33 with a click: the button
\* is drawn, and when it returns True the results are emptied
AfterButton(s, returns) ==
    LET drawn == [s EXCEPT !.enabled = ButtonEnabled(s)]
    IN  IF returns
        THEN [drawn EXCEPT !.results = <<<<>>>>, !.pos = 0,
                           !.pc = IF s.uploaded_files = <<>> THEN "idle" ELSE "loop",
                           !.run_files = s.uploaded_files,
                           !.run_loaded = s.loaded]
        ELSE [drawn EXCEPT !.pc = "idle"]

\* main.py lines 34-46 for the next file of uploaded_files; after the last
\* one the run goes on to its end (lines 48-51)
AfterFile(s) ==
    LET name == s.uploaded_files[s.pos + 1]
    IN  [s EXCEPT !.results = <<@[1] \o ProcessAll(<<name>>, s.answer_key[1])>>,
                  !.pos = @ + 1,
                  !.pc = IF s.pos + 1 = Len(s.uploaded_files) THEN "idle"
                         ELSE "loop"]

\* the first run of main() of a session: nothing in st.session_state, empty
\* uploaders, no button drawn yet
InitSession ==
    /\ session = [open |-> TRUE, pc |-> "load",
                  key_widget |-> None, sheets_widget |-> <<>>,
                  rerun |-> "none", click |-> FALSE, clicks |-> 0,
                  uploaded_key |-> None, uploaded_files |-> <<>>,
                  pressed |-> FALSE, enabled |-> FALSE,
                  answer_key |-> None, results |-> None,
                  loaded |-> None, pos |-> 0,
                  run_files |-> <<>>, run_loaded |-> None]
    /\ NotCalled /\ NoWorkers /\ NoBatch /\ NoDatabase

\* the user puts a file into the key uploader (line 22)
ChooseKeyFile(file) ==
    /\ session.open
    /\ session.key_widget # <<file>>
    /\ session' = Interaction([session EXCEPT !.key_widget = <<file>>], FALSE)
    /\ UNCHANGED <<callVars, workerVars, batch, db>>

\* the user removes the file from the key uploader
RemoveKeyFile ==
    /\ session.open
    /\ session.key_widget # None
    /\ session' = Interaction([session EXCEPT !.key_widget = None], FALSE)
    /\ UNCHANGED <<callVars, workerVars, batch, db>>

\* the user selects the sheets (line 24)
ChooseSheets(files) ==
    /\ session.open
    /\ session.sheets_widget # files
    /\ session' = Interaction([session EXCEPT !.sheets_widget = files], FALSE)
    /\ UNCHANGED <<callVars, workerVars, batch, db>>

\* the user clicks the button as the page shows it, which a button drawn
\* disabled does not allow
ClickProcess ==
    /\ session.open
    /\ session.enabled
    /\ session.clicks < MaxRuns
    /\ session' = Interaction([session EXCEPT !.clicks = @ + 1], TRUE)
    /\ UNCHANGED <<callVars, workerVars, batch, db>>

\* Streamlit stops the run in progress at the st call it has reached, or
\* finds the last run ended, and runs main() again
RunAgain ==
    /\ session.open
    /\ session.rerun # "none"
    /\ session' = Rerun(session)
    /\ UNCHANGED <<callVars, workerVars, batch, db>>

\* the run gets through lines 26-30
LoadUploadedKey ==
    /\ session.open
    /\ session.pc = "load" /\ session.rerun # "due"
    /\ session' = Reached([LoadKey(session) EXCEPT !.pc = "button"])
    /\ UNCHANGED <<callVars, workerVars, batch, db>>

\* the run gets through line 32.  The button returns True only in a run
\* that a click asked for; for a click on a button that this run draws
\* disabled (the page still showed it enabled) the value is the library's
\* to choose.
DrawButton ==
    /\ session.open
    /\ session.pc = "button" /\ session.rerun # "due"
    /\ \E returns \in BOOLEAN :
          /\ returns => session.pressed
          /\ (session.pressed /\ ButtonEnabled(session)) => returns
          /\ session' = Reached(AfterButton(session, returns))
    /\ UNCHANGED <<callVars, workerVars, batch, db>>

\* the run goes through the loop body for one more file
ProcessFile ==
    /\ session.open
    /\ session.pc = "loop" /\ session.rerun # "due"
    /\ session' = Reached(AfterFile(session))
    /\ UNCHANGED <<callVars, workerVars, batch, db>>

NextSession ==
    \/ \E file \in KeyUploads : ChooseKeyFile(file)
    \/ RemoveKeyFile
    \/ \E files \in SheetUploads : ChooseSheets(files)
    \/ ClickProcess
    \/ RunAgain
    \/ LoadUploadedKey
    \/ DrawButton
    \/ ProcessFile

SpecSession == InitSession /\ [][NextSession]_vars

(***************************************************************************)
(* What the properties below speak of.                                     *)
(***************************************************************************)
Done == pc = "done"

ScoreFields == {"total_questions", "correct", "percentage"}

\* the call returned a report
Succeeded == Done /\ "total_questions" \in DOMAIN result

\* the regions of the input image that pass the shape filter, counted anew
Survivors ==
    Cardinality({i \in 1..Len(image_bytes.contours) :
                    IsBubbleShape(image_bytes.contours[i])})

ExpectedCells == total_questions * options_per_question

Cells == {run.cells[i] : i \in 1..Len(run.cells)}

\* the question numbers the answer key holds, and its entry for one
KeyedQuestions == {q \in 1..(2 * total_questions) : PyStr(q) \in DOMAIN answer_key}
KeyEntry(q) == DictGet(answer_key, PyStr(q))

(***************************************************************************)
(* The mark evaluation of the design (spec 4.4): the response of a         *)
(* question from the ink counts of its options, a fill threshold and a     *)
(* margin.  The code has neither parameter.                                *)
(***************************************************************************)
FillThreshold == 5
FillMargin == 3


\* the option positions (1-based, as in a cell's inks) above the threshold
Exceeding(inks) == {j \in DOMAIN inks : inks[j] > FillThreshold}

\* the greatest ink count and the greatest one among the other options
TopInk(inks) == Max({inks[j] : j \in DOMAIN inks})
RunnerUpInk(inks) ==
    LET top == CHOOSE j \in DOMAIN inks : inks[j] = TopInk(inks)
    IN  Max({inks[j] : j \in DOMAIN inks \ {top}})

NoSelection(inks) == Exceeding(inks) = {}

Ambiguous(inks) ==
    /\ Cardinality(Exceeding(inks)) >= 2
    /\ TopInk(inks) - RunnerUpInk(inks) < FillMargin

\* the response is the single option index j (0-based)
SingleResponse(inks, j) ==
    /\ ~NoSelection(inks) /\ ~Ambiguous(inks)
    /\ j + 1 \in DOMAIN inks /\ inks[j + 1] = TopInk(inks)

(***************************************************************************)
(* C1: for the layout of the code (100 questions = 20 rows per block * 5   *)
(* column blocks, 4 options), a grid of exactly total_questions *          *)
(* options_per_question candidates is resolved into question numbers that  *)
(* form exactly the set 1..total_questions, each produced once, for one    *)
(* (physical row, column block) pair.                                      *)
(***************************************************************************)
C1_QuestionNumbersExact ==
    (Done /\ image_bytes.decodes /\ Survivors = ExpectedCells) =>
        /\ run.stage = "done"
        /\ {c.question_num : c \in Cells} = 1..total_questions
        /\ Len(run.cells) = total_questions
        /\ \A q \in 1..total_questions :
              Cardinality({<<c.q_row, c.col>> : c \in {d \in Cells : d.question_num = q}}) = 1
        /\ \A c, d \in Cells :
              (c.q_row = d.q_row /\ c.col = d.col) => c.question_num = d.question_num

C1_Witness ==
    /\ Done /\ image_bytes.decodes /\ Survivors = ExpectedCells
    /\ Len(image_bytes.contours) > ExpectedCells
    /\ Len(run.cells) = total_questions
    /\ \E c \in Cells : c.question_num = total_questions /\ c.q_row = MaxRows - 1

(***************************************************************************)
(* C2: a question in which two or more options exceed the fill threshold   *)
(* with no decisive margin between the top two (equal fill included) is    *)
(* multiple_marked: it is never counted as correct, whatever the key says. *)
(***************************************************************************)
C2_AmbiguousNeverCorrect ==
    Done => \A c \in Cells : Ambiguous(c.inks) => ~c.counted

(***************************************************************************)
(* C3: a question in which no option exceeds the fill threshold is         *)
(* not_attempted: it adds nothing to correct_count, for every key value,   *)
(* and is still counted in total_questions.                                *)
(***************************************************************************)
C3_BlankNeverCorrect ==
    Succeeded =>
        /\ \A c \in Cells : NoSelection(c.inks) => ~c.counted
        /\ result.total_questions >= Cardinality({c \in Cells : NoSelection(c.inks)})

(***************************************************************************)
(* C4: when fewer candidates survive the shape filter than                 *)
(* total_questions * options_per_question (the code's tolerance is 1), the *)
(* call ends in the bubble-detection failure result, which has no score    *)
(* fields, and neither grid resolution nor scoring has run.                *)
(***************************************************************************)
C4_InsufficientCandidates ==
    (Done /\ image_bytes.decodes /\ Survivors < ExpectedCells) =>
        /\ result = DetectionFailed(Survivors)
        /\ DOMAIN result \cap ScoreFields = {}
        /\ run.stage = "detect" /\ run.cells = <<>>

C4_Witness ==
    /\ Done /\ image_bytes.decodes
    /\ Survivors = ExpectedCells - 1
    /\ result.error = "Bubble detection failed"

(***************************************************************************)
(* C5: grid resolution fails (LayoutMismatch) whenever the candidates      *)
(* cannot be partitioned into exactly total_questions *                    *)
(* options_per_question cells; with more candidates than the layout        *)
(* expects no score report is returned.                                    *)
(***************************************************************************)
C5_LayoutMismatchFails ==
    (Done /\ image_bytes.decodes /\ Survivors # ExpectedCells) => ~Succeeded

(***************************************************************************)
(* C6: when every question has exactly one filled bubble and its option    *)
(* index is the answer key's entry for the question, the report has        *)
(* percentage 100 and every question is counted as correct.                *)
(***************************************************************************)
AllSingleMatching ==
    \A c \in Cells :
        /\ Cardinality(Exceeding(c.inks)) = 1
        /\ \A j \in Exceeding(c.inks) : KeyEntry(c.question_num) = <<j - 1>>

C6_AllMatchingIsFullScore ==
    (Succeeded /\ AllSingleMatching) =>
        /\ result.percentage[1] = 100 * result.percentage[2]
        /\ result.correct = Len(run.cells)
        /\ result.correct = total_questions
        /\ \A c \in Cells : c.counted

C6_Witness ==
    /\ Succeeded /\ AllSingleMatching
    /\ Len(run.cells) = total_questions
    /\ result.correct = total_questions
    /\ \E c, d \in Cells : c.bubbled[2] # d.bubbled[2]

(***************************************************************************)
(* C7: the percentage of every successful report is correct_count /        *)
(* total_scored_questions * 100, total_scored_questions being the number   *)
(* of question numbers in the answer key, sparse keys included.            *)
(***************************************************************************)
C7_PercentageOverKeyed ==
    (Succeeded /\ KeyedQuestions # {}) =>
        result.percentage[1] * Cardinality(KeyedQuestions)
            = result.correct * 100 * result.percentage[2]

(***************************************************************************)
(* C8: total_questions of a report is the number of entries of the answer  *)
(* key it was scored against.                                              *)
(***************************************************************************)
C8_TotalIsKeySize ==
    Succeeded => result.total_questions = Cardinality(DOMAIN answer_key)

(***************************************************************************)
(* C9: a question with a response on the sheet and no entry in the answer  *)
(* key is excluded from scoring, i.e. it is neither in the numerator nor   *)
(* in the denominator: the report is the one of the layout's questions     *)
(* without it.                                                             *)
(***************************************************************************)
\* the score fields of the questions of S alone
ScoreOver(S) ==
    LET correct == Cardinality({c \in Cells : c.question_num \in S /\ c.counted})
    IN  [correct |-> correct, total_questions |-> Cardinality(S),
         percentage |-> <<correct * 100, Cardinality(S)>>]

C9_UnkeyedExcluded ==
    Succeeded =>
        \A c \in Cells :
            KeyEntry(c.question_num) = None =>
                LET without == ScoreOver({d.question_num : d \in Cells} \ {c.question_num})
                IN  /\ result.correct = without.correct
                    /\ result.total_questions = without.total_questions
                    /\ result.percentage[1] * without.percentage[2]
                          = without.percentage[1] * result.percentage[2]

(***************************************************************************)
(* C10: correct_count is exactly the number of question numbers of the     *)
(* answer key whose response is a single option index equal to the key's   *)
(* option index; a single response that differs from the key never adds to *)
(* correct_count.                                                          *)
(***************************************************************************)
C10_CorrectIsSingleMatches ==
    Succeeded =>
        /\ result.correct =
              Cardinality({c \in Cells :
                  /\ KeyEntry(c.question_num) # None
                  /\ SingleResponse(c.inks, KeyEntry(c.question_num)[1])})
        /\ \A c \in Cells :
              (\E j \in 0..(options_per_question - 1) :
                  /\ SingleResponse(c.inks, j)
                  /\ KeyEntry(c.question_num) # <<j>>) => ~c.counted


(***************************************************************************)
(* C14: failure results are tagged by kind: undecodable bytes give the     *)
(* decode failure, too few bubble-like shapes the insufficient-candidates  *)
(* failure, a grid that cannot be partitioned a layout-mismatch failure;   *)
(* the three are told apart and none is the generic error.                 *)
(***************************************************************************)
FailureTexts == {DecodeFailed.error, DetectionFailed(0).error, CriticalError.error}

C14_FailuresTagged ==
    Done =>
        /\ ~image_bytes.decodes => result = DecodeFailed
        /\ (image_bytes.decodes /\ Survivors < ExpectedCells) =>
              ("error" \in DOMAIN result /\ result.error = DetectionFailed(0).error)
        /\ (image_bytes.decodes /\ Survivors > ExpectedCells) =>
              /\ "error" \in DOMAIN result
              /\ result.error \notin FailureTexts \cup {"None"}

(***************************************************************************)
(* C16: every successful result holds total_questions and a percentage     *)
(* between 0 and 100; 0 <= correct <= total_questions, each question       *)
(* number being scored at most once.                                       *)
(***************************************************************************)
C16_ScoreInRange ==
    Succeeded =>
        /\ ScoreFields \subseteq DOMAIN result
        /\ result.error = "None"
        /\ result.percentage[2] > 0
        /\ 0 <= result.percentage[1]
        /\ result.percentage[1] <= 100 * result.percentage[2]
        /\ 0 <= result.correct /\ result.correct <= result.total_questions
        /\ \A i, j \in 1..Len(run.cells) :
              run.cells[i].question_num = run.cells[j].question_num => i = j

C16_Witness ==
    /\ Succeeded
    /\ 0 < result.correct /\ result.correct < result.total_questions
    /\ Survivors > ExpectedCells

(***************************************************************************)
(* C17: whenever grid resolution succeeds, every question number of        *)
(* 1..total_questions is bound to exactly options_per_question cells with  *)
(* the option indices 0..options_per_question-1, and no candidate is bound *)
(* to two (question, option) pairs.                                        *)
(***************************************************************************)
\* the (option index, candidate) bindings of a resolved question
BindingsOf(c) == {<<j - 1, c.cnts[j]>> : j \in DOMAIN c.cnts}

C17_GridWellFormed ==
    Succeeded =>
        /\ \A q \in 1..total_questions :
              \E c \in Cells :
                  /\ c.question_num = q
                  /\ \A d \in Cells : d.question_num = q => d = c
                  /\ {b[1] : b \in BindingsOf(c)} = 0..(options_per_question - 1)
                  /\ Cardinality(BindingsOf(c)) = options_per_question
                  /\ Cardinality({b[2] : b \in BindingsOf(c)}) = options_per_question
        /\ \A c, d \in Cells :
              c # d => {b[2] : b \in BindingsOf(c)} \cap {b[2] : b \in BindingsOf(d)} = {}
        /\ \A c \in Cells : \A b \in BindingsOf(c) :
              /\ b[2] \in 1..Len(image_bytes.contours)
              /\ IsBubbleShape(image_bytes.contours[b[2]])

C17_Witness ==
    /\ Succeeded
    /\ Cardinality(UNION {{b[2] : b \in BindingsOf(c)} : c \in Cells}) = ExpectedCells
    /\ \E c \in Cells : c.cnts[1] > c.cnts[2]


(***************************************************************************)
(* C18: when the subject ranges exactly tile 1..total_questions, the       *)
(* subject correct counts add up to the overall correct count and the      *)
(* subject totals add up to the overall total_questions.  No code of the   *)
(* repository computes subject subtotals (utils.generate_score_summary and *)
(* models.py only read them), so a subtotal is taken from spec 4.5: the    *)
(* classification of the answer key's question numbers, restricted to one  *)
(* contiguous range.  The overall figures are those of the report of       *)
(* process_omr_sheet.                                                      *)
(***************************************************************************)
\* the subtotal of the questions lo..hi of a sheet scored against key:
\* total is the number of question numbers of the key within the range,
\* correct the number of those whose response is the single option of the key
SubjectScore(cells, key, lo, hi) ==
    LET keyed == {q \in lo..hi : DictGet(key, PyStr(q)) # None}
        right == {q \in keyed :
                     \E i \in 1..Len(cells) :
                        /\ cells[i].question_num = q
                        /\ SingleResponse(cells[i].inks, DictGet(key, PyStr(q))[1])}
    IN  [correct |-> Cardinality(right), total |-> Cardinality(keyed)]

\* k subject ranges of equal size (k divides total_questions)
EvenRanges(k) ==
    [i \in 1..k |-> [lo |-> (i - 1) * (total_questions \div k) + 1,
                     hi |-> i * (total_questions \div k)]]

\* two subject ranges, the first one of m questions
TwoRanges(m) == <<[lo |-> 1, hi |-> m], [lo |-> m + 1, hi |-> total_questions]>>

\* configurations whose ranges tile 1..total_questions; EvenRanges(5) is
\* the default of utils.load_config (5 subjects of 20 questions)
Tilings == {EvenRanges(k) : k \in {1, 2, 4, 5}} \cup {TwoRanges(m) : m \in {1, 5, 57, 99}}

RECURSIVE SumCorrect(_, _, _)
SumCorrect(cells, key, ranges) ==
    IF ranges = <<>> THEN 0
    ELSE SubjectScore(cells, key, Head(ranges).lo, Head(ranges).hi).correct
            + SumCorrect(cells, key, Tail(ranges))

RECURSIVE SumTotal(_, _, _)
SumTotal(cells, key, ranges) ==
    IF ranges = <<>> THEN 0
    ELSE SubjectScore(cells, key, Head(ranges).lo, Head(ranges).hi).total
            + SumTotal(cells, key, Tail(ranges))

C18_SubtotalsAddUp ==
    Succeeded =>
        \A ranges \in Tilings :
            /\ SumCorrect(run.cells, answer_key, ranges) = result.correct
            /\ SumTotal(run.cells, answer_key, ranges) = result.total_questions

(***************************************************************************)
(* C19: process_omr_sheet never modifies the answer key: after any call,   *)
(* successful or failed, the mapping holds the same question numbers and   *)
(* the same option indices as before the call.                             *)
(***************************************************************************)
C19_KeyUnmodified == [][pc = "ready" => answer_key' = answer_key]_vars

\* a call that has looked up every question of a non-empty key
C19_Witness ==
    /\ Done /\ run.stage = "done"
    /\ KeyedQuestions # {}
    /\ KeyedQuestions \subseteq {c.question_num : c \in Cells}
    /\ \A q \in KeyedQuestions : KeyEntry(q) # None

(***************************************************************************)
(* C11: running process_omr_sheet twice with identical image bytes and     *)
(* identical answer key yields identical results (the same failure, or the *)
(* same total_questions, correct and percentage), whatever other images    *)
(* were processed in between on the same processor and whatever its debug  *)
(* flag was set to.                                                        *)
(***************************************************************************)
C11_SameArgumentsSameResult ==
    \A i, j \in DOMAIN returned :
        returned[i].call = returned[j].call =>
            returned[i].result = returned[j].result

\* the same sheet scored twice, with a failing call of another image
\* returned in between
C11_Witness ==
    /\ Len(returned) = 3
    /\ returned[1].call = "scored" /\ returned[3].call = "scored"
    /\ returned[2].call = "short"
    /\ "correct" \in DOMAIN returned[3].result
    /\ processor.debug

(***************************************************************************)
(* C13: every call of process_omr_sheet ends by returning a result value,  *)
(* either a report whose error is None or a failure result carrying a      *)
(* human-readable cause; no exception propagates to the caller, whatever   *)
(* stage fails.                                                            *)
(***************************************************************************)
\* a score report or a failure result
IsResultValue(r) ==
    /\ "error" \in DOMAIN r
    /\ \/ r.error = "None" /\ ScoreFields \subseteq DOMAIN r
       \/ r.error \in FailureTexts /\ ScoreFields \cap DOMAIN r = {}

C13_AlwaysReturnsResult ==
    /\ \A w \in DOMAIN frames :
          frames[w].pc = "returned" => IsResultValue(frames[w].result)
    /\ \A i \in DOMAIN returned : IsResultValue(returned[i].result)

\* calls in which the decoding raised and the scoring raised have returned
C13_Witness ==
    /\ \E i \in DOMAIN returned :
          returned[i].call = "path" /\ returned[i].result = CriticalError
    /\ \E w \in DOMAIN frames :
          /\ frames[w].pc = "returned" /\ frames[w].call = "nokey"
          /\ frames[w].result = CriticalError

(***************************************************************************)
(* C15: runs on the shared, cached processor are isolated: whether the     *)
(* calls follow each other or are interleaved across workers, each returns *)
(* what the same call returns when made alone, and the processor holds     *)
(* nothing of a run that another run could read.                           *)
(***************************************************************************)
C15_RunsIsolated ==
    /\ \A w \in DOMAIN frames :
          frames[w].pc = "returned" => frames[w].result = Alone[frames[w].call]
    /\ \A i \in DOMAIN returned : returned[i].result = Alone[returned[i].call]
    /\ processor.processed_image_for_debug = None

\* a scored call has returned while the call of another worker, begun with
\* another image, is between its stages
C15_Witness ==
    \E v, w \in DOMAIN frames :
        /\ frames[v].pc = "detected" /\ frames[v].call = "nokey"
        /\ frames[w].pc = "returned" /\ frames[w].call = "scored"
        /\ frames[w].result = Report(5)
        /\ Len(returned) = 1 /\ returned[1].call = "short"

(***************************************************************************)
(* C12: in a batch of N images the images are submitted to processing in   *)
(* input order, each at most once, and every image is submitted exactly    *)
(* once unless its own progress callback raised before the call; whatever  *)
(* failed for image i (decoding, too few candidates, a caught exception, a *)
(* raising callback), the loop goes on to images i+1..N.                   *)
(***************************************************************************)
NotSkipped(k) == k \notin batch.skipped

C12_SubmittedOnceInOrder ==
    /\ batch.i <= Len(batch.files)
    /\ batch.submitted = SelectSeq([k \in 1..batch.i |-> k], NotSkipped)
    /\ batch.done => batch.i = Len(batch.files)
    /\ batch.caller = "main" => batch.skipped = {}

\* C12 as stated: every image of a finished batch was submitted exactly
\* once, in input order
C12_AllSubmitted ==
    batch.done => batch.submitted = [k \in 1..Len(batch.files) |-> k]

\* a batch whose first two images failed and whose third was scored
C12_Witness ==
    /\ batch.caller = "main" /\ batch.done
    /\ batch.files = <<"garbled", "short", "scored">>
    /\ batch.submitted = <<1, 2, 3>>
    /\ batch.failed = <<"garbled", "short">>
    /\ Len(batch.results) = 1 /\ batch.results[1].filename = "scored"

(***************************************************************************)
(* C20: saving an answer key under a version and then retrieving that      *)
(* version returns a key equal to the one saved: the same question         *)
(* numbers, of the same type, mapped to the same option indices.           *)
(***************************************************************************)
C20_KeyRoundTrip ==
    (db.last.op = "get_answer_key" /\ db.last.version \in DOMAIN db.given) =>
        db.last.ret = <<db.given[db.last.version]>>

(***************************************************************************)
(* C22: in a resolved grid the candidate at 0-based physical row r and     *)
(* 0-based left-to-right position p of that row is bound to option index   *)
(* p mod options_per_question and to question number                       *)
(* (p div options_per_question) * rows_per_block + r + 1, so that column   *)
(* block b covers questions b * rows_per_block + 1 .. (b + 1) *            *)
(* rows_per_block.                                                         *)
(***************************************************************************)
\* the surviving candidates of the image
Candidates ==
    {image_bytes.contours[i] : i \in {j \in 1..Len(image_bytes.contours) :
                                        IsBubbleShape(image_bytes.contours[j])}}

\* row and position of a candidate by where it lies on the sheet: rows are
\* 40 apart from y = 150, positions 30 apart from x = 100
PhysicalRow(c) == (c.y - 150) \div 40
PositionInRow(c) == (c.x - 100) \div 30

\* the candidates are the bubbles of the printed grid, one per place
IsPrintedGrid ==
    /\ Survivors = ExpectedCells
    /\ {<<PhysicalRow(c), PositionInRow(c)>> : c \in Candidates}
          = (0..(MaxRows - 1)) \X (0..(RowSize - 1))

C22_BoundByRowAndPosition ==
    (Succeeded /\ IsPrintedGrid) =>
        /\ \A c \in Cells : \A j \in DOMAIN c.cnts :
              LET b == image_bytes.contours[c.cnts[j]]
                  r == PhysicalRow(b)
                  p == PositionInRow(b)
              IN  /\ j - 1 = p % options_per_question
                  /\ c.question_num = (p \div options_per_question) * RowsPerBlock + r + 1
        /\ \A c \in Cells :
              c.question_num \in (c.col * RowsPerBlock + 1)..((c.col + 1) * RowsPerBlock)
        /\ \A b \in Candidates : \E c \in Cells : \E j \in DOMAIN c.cnts : c.cnts[j] = b.id

\* a printed grid detected bottom-up, with rejected regions among the
\* contours, in which question 100 was bound to the last four bubbles of
\* the last row
C22_Witness ==
    /\ Succeeded /\ IsPrintedGrid
    /\ Len(image_bytes.contours) > ExpectedCells
    /\ image_bytes.contours[1].y > image_bytes.contours[Len(image_bytes.contours)].y
    /\ \E c \in Cells :
          /\ c.question_num = total_questions
          /\ \A j \in DOMAIN c.cnts :
                /\ PhysicalRow(image_bytes.contours[c.cnts[j]]) = MaxRows - 1
                /\ PositionInRow(image_bytes.contours[c.cnts[j]])
                      = RowSize - options_per_question + j - 1

(***************************************************************************)
(* C23: grid resolution depends only on row membership and on the          *)
(* horizontal order inside each row: when the bubbles of a candidate set   *)
(* of the expected size are moved vertically inside their rows, every      *)
(* bubble of row r staying above every bubble of row r + 1, each bubble is *)
(* resolved to the same (question number, option index) as before.         *)
(***************************************************************************)
\* the greatest vertical offset of a bubble and the offset patterns tried
MaxOffset == 21
OffsetPatterns == {1, 2}

\* the vertical offset of the contour with number i under pattern k
Offset(i, k) == (i * (6 * k + 1)) % (MaxOffset + 1)

\* the image with every contour moved down by its offset
Shifted(image, k) ==
    [image EXCEPT !.contours =
        [i \in 1..Len(image.contours) |->
            [image.contours[i] EXCEPT !.y = @ + Offset(i, k)]]]

\* the (candidate, question number, option index) bindings of a grid
Resolution(cells) ==
    UNION {{<<cells[i].cnts[j], cells[i].question_num, j - 1>> :
              j \in DOMAIN cells[i].cnts} : i \in 1..Len(cells)}

\* the grid that lines 40-59 resolve for an image
ResolvedGrid(image, key) ==
    GridCells(SortContours(FilterContours(image.contours), "top-to-bottom"), key)

C23_VerticalOffsetsIrrelevant ==
    (Succeeded /\ IsPrintedGrid) =>
        \A k \in OffsetPatterns :
            Resolution(ResolvedGrid(Shifted(image_bytes, k), answer_key))
                = Resolution(run.cells)

\* a resolved printed grid one of whose shifted forms has two neighbours of
\* a row in the opposite vertical order
C23_Witness ==
    /\ Succeeded /\ IsPrintedGrid
    /\ Len(run.cells) = total_questions
    /\ \E k \in OffsetPatterns : \E i \in 1..(Len(image_bytes.contours) - 1) :
          LET a == image_bytes.contours[i]
              b == image_bytes.contours[i + 1]
          IN  /\ IsBubbleShape(a) /\ IsBubbleShape(b)
              /\ PhysicalRow(a) = PhysicalRow(b)
              /\ a.y <= b.y
              /\ a.y + Offset(i, k) > b.y + Offset(i + 1, k)

(***************************************************************************)
(* C24: a detected region becomes a bubble candidate if and only if all    *)
(* three filters hold together (width and height at least the minimum,     *)
(* width/height inside the band around 1.0, area above the minimum); a     *)
(* rejected region is bound to no grid cell and has no influence on the    *)
(* result: processing the image without the rejected regions gives the     *)
(* same result.                                                            *)
(***************************************************************************)
\* the three filters of lines 32 and 34
SizeFilter(c) == c.w >= 10 /\ c.h >= 10
RatioFilter(c) == 2 * c.w >= c.h /\ 2 * c.w <= 3 * c.h
AreaFilter(c) == c.area > 50

\* the numbers of the regions that pass all three
Passing ==
    {i \in 1..Len(image_bytes.contours) :
        /\ SizeFilter(image_bytes.contours[i])
        /\ RatioFilter(image_bytes.contours[i])
        /\ AreaFilter(image_bytes.contours[i])}

\* the image with the regions that fail a filter taken out
WithoutRejected ==
    [image_bytes EXCEPT !.contours =
        SelectSeq(@, LAMBDA c : SizeFilter(c) /\ RatioFilter(c) /\ AreaFilter(c))]

C24_OnlyCandidatesCount ==
    (Done /\ image_bytes.decodes) =>
        LET passing == Passing
            bound == UNION {{run.cells[i].cnts[j] : j \in DOMAIN run.cells[i].cnts} :
                              i \in 1..Len(run.cells)}
        IN  /\ run.n = Cardinality(passing)
            /\ bound \subseteq passing
            /\ Cardinality(passing) < Len(image_bytes.contours) =>
                  ProcessOmrSheet(WithoutRejected, answer_key).result = result

\* a scored sheet with three rejected regions, each failing another filter
C24_Witness ==
    /\ Succeeded
    /\ \E i \in 1..Len(image_bytes.contours) :
          LET c == image_bytes.contours[i]
          IN  SizeFilter(c) /\ RatioFilter(c) /\ ~AreaFilter(c)
    /\ \E i \in 1..Len(image_bytes.contours) :
          LET c == image_bytes.contours[i]
          IN  SizeFilter(c) /\ ~RatioFilter(c) /\ AreaFilter(c)
    /\ \E i \in 1..Len(image_bytes.contours) :
          ~SizeFilter(image_bytes.contours[i])

(***************************************************************************)
(* C25: for each question process_omr_sheet selects exactly one option,    *)
(* the one with the greatest ink count among the question's cells and,     *)
(* when several share the greatest count, the one with the lowest option   *)
(* index; a selection is made even when all counts are zero.               *)
(***************************************************************************)
C25_FirstDarkestSelected ==
    Succeeded =>
        \A c \in Cells :
            /\ c.bubbled # None
            /\ c.bubbled[2] \in 0..(Len(c.inks) - 1)
            /\ c.bubbled[1] = c.inks[c.bubbled[2] + 1]
            /\ \A j \in DOMAIN c.inks : c.inks[j] <= c.bubbled[1]
            /\ \A j \in DOMAIN c.inks :
                  c.inks[j] = c.bubbled[1] => j - 1 >= c.bubbled[2]

\* a question without any ink for which option 0 was selected and counted,
\* beside questions whose single mark is right of option 0
C25_Witness ==
    /\ Succeeded
    /\ \E c \in Cells :
          /\ \A j \in DOMAIN c.inks : c.inks[j] = 0
          /\ c.bubbled = <<0, 0>>
          /\ c.counted
    /\ \E c \in Cells : c.bubbled[2] > 0

(***************************************************************************)
(* C26: scoring the same sheet against two answer keys with the same       *)
(* (question number, option index) pairs, one keyed by the integers (the   *)
(* form validate_answer_key_file returns) and one keyed by their decimal   *)
(* strings, yields the same correct count and percentage.                  *)
(***************************************************************************)
IsIntKeyed(key) == key # <<>> /\ \A k \in DOMAIN key : k.t = "int"

\* the key with the same pairs under the decimal strings
StrKeyed(key) ==
    [k \in {[t |-> "str", d |-> j.d] : j \in DOMAIN key} |->
        key[[t |-> "int", d |-> k.d]]]

C26_KeyFormsAgree ==
    (Succeeded /\ IsIntKeyed(answer_key)) =>
        LET other == ProcessOmrSheet(image_bytes, StrKeyed(answer_key)).result
        IN  /\ result.correct = other.correct
            /\ result.percentage = other.percentage

(***************************************************************************)
(* C27: process_images_batch returns a list that contains, in input order, *)
(* exactly one entry for each image whose processing by process_omr_sheet  *)
(* succeeded (returned a report with no error), and no entry for any image *)
(* that failed.                                                            *)
(***************************************************************************)
C27_ResultsAreTheSuccesses ==
    (batch.caller = "utils" /\ batch.done) =>
        [i \in 1..Len(batch.results) |-> batch.results[i].filename] = batch.succeeded

(***************************************************************************)
(* C21: every successful save_result returns a positive integer id that    *)
(* no earlier save_result on the same database returned, saves made before *)
(* a clear_all_results included; until the results are cleared, get_result *)
(* with that id returns a record whose fields equal the saved ones.        *)
(***************************************************************************)
\* the fields of an OMRResult that save_result stores
SavedFields(r) == [r EXCEPT !.id = 0]

C21_FreshIdsAndReadBack ==
    /\ \A i \in 1..Len(db.issued) :
          /\ db.issued[i] \in Nat \ {0}
          /\ \A j \in 1..(i - 1) : db.issued[j] # db.issued[i]
    /\ (db.last.op = "get_result" /\ db.last.id \in db.live) =>
          /\ db.last.ret # None
          /\ SavedFields(db.last.ret[1]) = SavedFields(db.saved[db.last.id])
          /\ db.last.ret[1].id = db.last.id

\* three results were saved with a clear_all_results before the third,
\* and the third was read back
C21_Witness ==
    /\ db.issued = <<1, 2, 3>>
    /\ db.live = {3}
    /\ db.last.op = "get_result" /\ db.last.id = 3
    /\ db.last.ret # None
    /\ db.last.ret[1].filename = "test.jpg"

(***************************************************************************)
(* C28: the database holds at most one answer key per version;             *)
(* get_answer_key(version) returns the key given to the most recent        *)
(* save_answer_key for that version, or None if the version was never      *)
(* saved; saving one version never changes the key stored for another.     *)
(***************************************************************************)
C28_LastWriteWinsPerVersion ==
    /\ [](db.last.op = "get_answer_key" =>
            db.last.ret = IF db.last.version \in DOMAIN db.given
                          THEN <<db.given[db.last.version]>>
                          ELSE None)
    /\ [][\A version \in Versions :
            (\E key \in DbKeys : SaveAnswerKey(version, key)) =>
                \A other \in DOMAIN db.answer_keys \ {version} :
                    /\ other \in DOMAIN db'.answer_keys
                    /\ db'.answer_keys[other] = db.answer_keys[other]]_vars

(***************************************************************************)
(* C29: clear_all_results removes every stored result, so that afterwards  *)
(* get_all_results is empty and get_result returns None for every earlier  *)
(* id, and it leaves all stored answer keys and all settings unchanged.    *)
(***************************************************************************)
\* the ids that save_result has returned
Issued == {db.issued[i] : i \in 1..Len(db.issued)}

C29_ClearRemovesOnlyResults ==
    /\ []((db.last.op = "get_all_results" /\ db.live = {}) => db.last.ret = {})
    /\ []((db.last.op = "get_result" /\ db.last.id \in Issued \ db.live) =>
            db.last.ret = None)
    /\ [][ClearAllResults =>
            /\ db'.answer_keys = db.answer_keys
            /\ db'.settings = db.settings]_vars

\* results, an answer key and a setting were stored, the results were
\* cleared and an earlier id was looked up
C29_Witness ==
    /\ Len(db.issued) >= 2 /\ db.live = {}
    /\ DOMAIN db.answer_keys = {"test_version"}
    /\ db.answer_keys["test_version"] # <<>>
    /\ DOMAIN db.settings = SettingKeys
    /\ db.last.op = "get_result" /\ db.last.id \in Issued
    /\ db.last.ret = None

(***************************************************************************)
(* C30: in the interactive session processing can only be started once an  *)
(* answer key has been loaded successfully; an answer-key upload that      *)
(* fails to parse leaves the previously loaded key in effect, so that      *)
(* every processing run is scored against the last successfully loaded     *)
(* key.                                                                    *)
(***************************************************************************)
C30_ScoredWithLastLoadedKey ==
    /\ session.answer_key = session.loaded
    /\ (session.enabled \/ session.click \/ session.pressed) => session.loaded # None
    /\ session.results # None =>
          /\ session.run_loaded # None
          /\ session.results[1] = ProcessAll(SubSeq(session.run_files, 1, session.pos),
                                             session.run_loaded[1])

\* a key was loaded, then a file that does not parse was put in its place,
\* and the run made with that file still in the uploader went through both
\* sheets and scored the marked one against the loaded key
C30_Witness ==
    /\ session.results # None /\ session.pc = "idle" /\ session.rerun = "none"
    /\ session.uploaded_key # None /\ session.uploaded_key[1].kind = "garbled"
    /\ session.run_loaded = <<KeyOf("A", Questions)>>
    /\ session.run_files = <<"garbled", "scored">> /\ session.pos = 2
    /\ session.uploaded_files = session.run_files
    /\ Len(session.results[1]) = 1
    /\ session.results[1][1].filename = "scored"
    /\ session.results[1][1].correct = total_questions

====
